---- MODULE Spec2Model ----
(***************************************************************************)
(* The capture controller of src/main.py (class ArduinoAssistant): the     *)
(* tick loop of run(), the reset key, and the verification threads started *)
(* by run() that execute analyze_image().                                  *)
(*                                                                         *)
(* One loop iteration's state machine (lines 283-355) is one step; the key *)
(* handler (lines 365-370) is one step; every write a verification thread  *)
(* makes to the shared object is one step, so the thread's writes          *)
(* interleave with loop iterations and resets.  Time is a clock in whole   *)
(* seconds that the loop and the threads read.  The program compares each  *)
(* timestamp it keeps only with the present, against one interval, so when *)
(* the clock moves a timestamp is kept no further back than that interval  *)
(* (Recent): the guards cannot tell the difference and the state space     *)
(* stays finite in everything but the clock.                               *)
(*                                                                         *)
(* History variables (intervalLaunches, feedbackEnteredAt, scenario,       *)
(* outcomeStep, recovery) record what the program itself does not keep.    *)
(* They are recorded in the behaviours that start with history = TRUE      *)
(* (SpecHistory, SpecLive) and keep their first value in the behaviours of *)
(* Spec; the program's variables move the same way in all of them.         *)
(***************************************************************************)
EXTENDS Integers, Sequences, FiniteSets

VARIABLES
    clock,              \* time.time(), whole seconds
    prev_frame,         \* TRUE once get_motion_score has stored a reference frame
    state,              \* self.state
    feedback_data,      \* status of self.feedback_data, "none" for None
    last_motion_time,   \* self.last_motion_time
    current_step_idx,   \* self.current_step_idx
    last_ai_call,       \* self.last_ai_call
    steady_captured,    \* self.steady_captured
    quota_exhausted,    \* self.quota_exhausted
    success_start,      \* <<>> when the attribute is absent, else <<t>>
    api_key,            \* truthiness of the module global API_KEY
    tasks,              \* the threads started at line 317 that have not ended, oldest first
    history,            \* TRUE in the behaviours that record the variables below
    intervalLaunches,   \* launches since the last tick whose score reached the threshold
    feedbackEnteredAt,  \* while in FEEDBACK: the clock when that phase was entered
    scenario,           \* samples of Samples taken so far, one per second; -1 once left
    outcomeStep,        \* step of the thread that stored feedback_data, -1 if no thread did
    recovery            \* "moved" from the motion after a failure until the next start

vars == <<clock, prev_frame, state, feedback_data, last_motion_time,
          current_step_idx, last_ai_call, steady_captured, quota_exhausted,
          success_start, api_key, tasks, history, intervalLaunches,
          feedbackEnteredAt, scenario, outcomeStep, recovery>>

\* ---------------------------------------------------------------- constants
MOTION_THRESHOLD == 5000
TIME_THRESHOLD == 5
MIN_AI_INTERVAL == 15
SUCCESS_DISPLAY == 3
SIMULATE_SLEEP == 2
FIRST_FRAME_SCORE == 100000
NumSteps == 2

\* ------------------------------------------------------------------- bounds
\* The clock starts at StartTime (an epoch time, larger than every interval
\* of the program) and the model stops advancing it at MaxTime.
StartTime == 20
MaxTime == 60

\* Raw motion scores a frame can produce: below, at and above the threshold.
Scores == {100, 5000, 20000}

\* The scores of the sampling scenario: three frames with motion, then
\* stillness.  The first sample is taken one second after StartTime.
Samples == <<20000, 20000, 20000, 100, 100, 100, 100, 100, 100>>

\* What one run of analyze_image with an API key can meet.
FailureKinds == {"quota", "transport", "no_response", "decode_error", "no_json"}
ResultKinds == {"ok_correct", "ok_partial", "ok_incorrect", "ok_unknown"}
ApiKinds == {"encode_fail"} \cup FailureKinds \cup ResultKinds

\* ------------------------------------------------------------ pure helpers
\* get_motion_score: the first frame yields the sentinel, later frames the
\* measured score.
GetMotionScore(raw) == IF prev_frame THEN raw ELSE FIRST_FRAME_SCORE

\* The status analyze_image stores in feedback_data on each of its paths.
OutcomeStatus(kind) ==
    CASE kind = "simulated"    -> "correct"
      [] kind = "encode_fail"  -> "error"
      [] kind = "quota"        -> "error"
      [] kind = "transport"    -> "error"
      [] kind = "no_response"  -> "error"
      [] kind = "decode_error" -> "partial"
      [] kind = "no_json"      -> "error"
      [] kind = "ok_correct"   -> "correct"
      [] kind = "ok_partial"   -> "partial"
      [] kind = "ok_incorrect" -> "incorrect"
      [] kind = "ok_unknown"   -> "unknown"

\* --------------------------------------------------------------------- Init
Constructed ==
    /\ clock = StartTime
    /\ prev_frame = FALSE
    /\ state = "MOVING"
    /\ feedback_data = "none"
    /\ last_motion_time = StartTime
    /\ current_step_idx = 0
    /\ last_ai_call = 0
    /\ steady_captured = FALSE
    /\ quota_exhausted = FALSE
    /\ success_start = <<>>
    /\ api_key \in BOOLEAN
    /\ tasks = <<>>
    /\ intervalLaunches = 0
    /\ feedbackEnteredAt = 0
    /\ scenario = 0
    /\ outcomeStep = -1
    /\ recovery = "none"

Init == Constructed /\ history = FALSE

InitHistory == Constructed /\ history = TRUE

\* feedbackEnteredAt follows the phase: the clock of the step that changed the
\* phase to FEEDBACK while the phase is FEEDBACK, 0 otherwise.
EnteredFeedback ==
    feedbackEnteredAt' =
        IF ~history \/ state' # "FEEDBACK" THEN 0
        ELSE IF state = "FEEDBACK" THEN feedbackEnteredAt ELSE clock

\* scenario counts the samples of Samples taken so far: sample k is the tick
\* at StartTime + k, the only tick of that second, with a reference frame
\* stored by a tick at StartTime.  Any other tick or a reset leaves the
\* scenario for good.
SampleTaken(raw) ==
    scenario' =
        IF ~history THEN scenario
        ELSE IF scenario = 0 /\ clock = StartTime THEN 0
        ELSE IF /\ scenario \in 0 .. Len(Samples) - 1
                /\ prev_frame
                /\ clock = StartTime + scenario + 1
                /\ raw = Samples[scenario + 1]
             THEN scenario + 1
             ELSE -1

\* outcomeStep follows feedback_data: the step a thread was started for when
\* that thread stores the outcome, -1 when the tick loop or a reset does.
Produced(step) ==
    outcomeStep' = IF history THEN step ELSE outcomeStep

\* recovery follows one attempt after a failure: "moved" from the tick that
\* ends the display of an error outcome by motion (no lock, steps remain, no
\* thread alive) through every later tick below the threshold, "launched"
\* after the tick that starts the next thread, "none" otherwise.
Recovering(motion) ==
    recovery' =
        IF ~history THEN recovery
        ELSE IF /\ state = "FEEDBACK"
                /\ feedback_data = "error"
                /\ ~quota_exhausted
                /\ current_step_idx < NumSteps
                /\ tasks = <<>>
                /\ motion > MOTION_THRESHOLD
             THEN "moved"
        ELSE IF recovery = "moved" /\ Len(tasks') > Len(tasks) THEN "launched"
        ELSE IF recovery = "moved" /\ motion < MOTION_THRESHOLD THEN "moved"
        ELSE "none"

\* ------------------------------------------------------------ the tick loop
\* line 288
StillAtLeastThreshold(now) == now - last_motion_time >= TIME_THRESHOLD
StillLongEnough(now) == now - last_motion_time > TIME_THRESHOLD

\* lines 296-305: the three holds of the STEADY branch
MayLaunchIgnoringQuota(now) ==
    /\ ~steady_captured
    /\ ~(now - last_ai_call < MIN_AI_INTERVAL)
MayLaunchIgnoringCooldown(now) ==
    /\ ~quota_exhausted
    /\ ~steady_captured
MayLaunchUnlessError(now) ==
    /\ ~quota_exhausted
    /\ ~steady_captured
    /\ ~(now - last_ai_call < MIN_AI_INTERVAL)
    /\ feedback_data # "error"
MayLaunch(now) ==
    /\ ~quota_exhausted
    /\ ~steady_captured
    /\ ~(now - last_ai_call < MIN_AI_INTERVAL)

\* lines 313-317: the thread started for the current step
NewTask(now) ==
    [step |-> current_step_idx, at |-> now, pc |-> "run"]

\* lines 285-292
TickMovingKeepingEvent(motion, now) ==
    /\ state = "MOVING"
    /\ IF motion < MOTION_THRESHOLD
       THEN /\ IF StillLongEnough(now)
               THEN state' = "STEADY" /\ UNCHANGED steady_captured
               ELSE UNCHANGED <<state, steady_captured>>
            /\ UNCHANGED last_motion_time
       ELSE /\ last_motion_time' = now
            /\ UNCHANGED <<state, steady_captured>>
    /\ UNCHANGED <<feedback_data, current_step_idx, last_ai_call, success_start,
                   tasks>>
TickMoving(motion, now) ==
    /\ state = "MOVING"
    /\ IF motion < MOTION_THRESHOLD
       THEN /\ IF StillLongEnough(now)
               THEN state' = "STEADY" /\ steady_captured' = FALSE
               ELSE UNCHANGED <<state, steady_captured>>
            /\ UNCHANGED last_motion_time
       ELSE /\ last_motion_time' = now
            /\ UNCHANGED <<state, steady_captured>>
    /\ UNCHANGED <<feedback_data, current_step_idx, last_ai_call, success_start,
                   tasks>>

\* lines 294-325
TickSteady(motion, now) ==
    /\ state = "STEADY"
    /\ IF MayLaunch(now)
       THEN /\ steady_captured' = TRUE
            /\ IF current_step_idx < NumSteps
               THEN /\ state' = "ANALYZING"
                    /\ last_ai_call' = now
                    /\ tasks' = Append(tasks, NewTask(now))
                    /\ UNCHANGED feedback_data
               ELSE /\ state' = "FEEDBACK"
                    /\ feedback_data' = "correct"
                    /\ UNCHANGED <<last_ai_call, tasks>>
            /\ UNCHANGED last_motion_time
       ELSE /\ IF motion > MOTION_THRESHOLD /\ ~steady_captured
               THEN state' = "MOVING" /\ last_motion_time' = now
               ELSE UNCHANGED <<state, last_motion_time>>
            /\ UNCHANGED <<steady_captured, last_ai_call, tasks, feedback_data>>
    /\ UNCHANGED <<current_step_idx, success_start>>

\* lines 327-329
TickAnalyzing ==
    /\ state = "ANALYZING"
    /\ UNCHANGED <<state, feedback_data, last_motion_time, current_step_idx,
                   last_ai_call, steady_captured, success_start, tasks>>

\* lines 331-355
TickFeedbackClearingOutcome(motion, now) ==
    /\ state = "FEEDBACK"
    /\ IF feedback_data = "correct"
       THEN LET started == IF success_start = <<>> THEN now ELSE success_start[1]
            IN  IF now - started > SUCCESS_DISPLAY
                THEN /\ current_step_idx' = current_step_idx + 1
                     /\ state' = "MOVING"
                     /\ feedback_data' = "none"
                     /\ last_motion_time' = now
                     /\ success_start' = <<>>
                ELSE /\ success_start' = <<started>>
                     /\ UNCHANGED <<current_step_idx, state, feedback_data,
                                    last_motion_time>>
       ELSE IF feedback_data \in {"incorrect", "partial", "error"}
                /\ motion > MOTION_THRESHOLD
            THEN /\ state' = "MOVING"
                 /\ last_motion_time' = now
                 /\ feedback_data' = "none"
                 /\ UNCHANGED <<current_step_idx, success_start>>
            ELSE UNCHANGED <<current_step_idx, state, feedback_data,
                             last_motion_time, success_start>>
    /\ UNCHANGED <<last_ai_call, steady_captured, tasks>>
TickFeedback(motion, now) ==
    /\ state = "FEEDBACK"
    /\ IF feedback_data = "correct"
       THEN LET started == IF success_start = <<>> THEN now ELSE success_start[1]
            IN  IF now - started > SUCCESS_DISPLAY
                THEN /\ current_step_idx' = current_step_idx + 1
                     /\ state' = "MOVING"
                     /\ feedback_data' = "none"
                     /\ last_motion_time' = now
                     /\ success_start' = <<>>
                ELSE /\ success_start' = <<started>>
                     /\ UNCHANGED <<current_step_idx, state, feedback_data,
                                    last_motion_time>>
       ELSE IF feedback_data \in {"incorrect", "partial", "error"}
                /\ motion > MOTION_THRESHOLD
            THEN /\ state' = "MOVING"
                 /\ last_motion_time' = now
                 /\ UNCHANGED <<current_step_idx, feedback_data, success_start>>
            ELSE UNCHANGED <<current_step_idx, state, feedback_data,
                             last_motion_time, success_start>>
    /\ UNCHANGED <<last_ai_call, steady_captured, tasks>>

\* lines 270-355: one loop iteration up to the key poll
Tick(raw) ==
    LET motion == GetMotionScore(raw)
        now == clock
    IN  /\ \/ TickMoving(motion, now)
           \/ TickSteady(motion, now)
           \/ TickAnalyzing
           \/ TickFeedback(motion, now)
        /\ prev_frame' = TRUE
        /\ EnteredFeedback
        /\ intervalLaunches' =
              IF ~history THEN 0
              ELSE (IF motion >= MOTION_THRESHOLD THEN 0 ELSE intervalLaunches)
                   + (IF Len(tasks') > Len(tasks) THEN 1 ELSE 0)
        /\ SampleTaken(raw)
        /\ Produced(IF feedback_data' = feedback_data THEN outcomeStep ELSE -1)
        /\ Recovering(motion)
        /\ UNCHANGED <<clock, quota_exhausted, api_key, history>>

\* lines 365-370: the 'r' key
ResetClearingQuota ==
    /\ state' = "MOVING"
    /\ feedback_data' = "none"
    /\ last_motion_time' = clock
    /\ quota_exhausted' = FALSE
    /\ UNCHANGED <<clock, prev_frame, current_step_idx, last_ai_call,
                   steady_captured, success_start, api_key, tasks,
                   history, intervalLaunches>>
    /\ EnteredFeedback
    /\ scenario' = (IF history THEN -1 ELSE scenario)
    /\ Produced(-1)
    /\ recovery' = (IF history THEN "none" ELSE recovery)
ResetConsumingEvent ==
    /\ state' = "MOVING"
    /\ feedback_data' = "none"
    /\ last_motion_time' = clock
    /\ steady_captured' = TRUE
    /\ UNCHANGED <<clock, prev_frame, current_step_idx, last_ai_call,
                   quota_exhausted, success_start, api_key, tasks,
                   history, intervalLaunches>>
    /\ EnteredFeedback
    /\ scenario' = (IF history THEN -1 ELSE scenario)
    /\ Produced(-1)
    /\ recovery' = (IF history THEN "none" ELSE recovery)
ResetKeepingOutcome ==
    /\ state' = "MOVING"
    /\ last_motion_time' = clock
    /\ UNCHANGED <<clock, prev_frame, feedback_data, current_step_idx, last_ai_call,
                   steady_captured, quota_exhausted, success_start, api_key, tasks,
                   history, intervalLaunches>>
    /\ EnteredFeedback
    /\ scenario' = (IF history THEN -1 ELSE scenario)
    /\ Produced(-1)
    /\ recovery' = (IF history THEN "none" ELSE recovery)
Reset ==
    /\ state' = "MOVING"
    /\ feedback_data' = "none"
    /\ last_motion_time' = clock
    /\ UNCHANGED <<clock, prev_frame, current_step_idx, last_ai_call,
                   steady_captured, quota_exhausted, success_start, api_key, tasks,
                   history, intervalLaunches>>
    /\ EnteredFeedback
    /\ scenario' = (IF history THEN -1 ELSE scenario)
    /\ Produced(-1)
    /\ recovery' = (IF history THEN "none" ELSE recovery)

\* ------------------------------------------------- the verification thread
TaskFrame == <<clock, prev_frame, last_motion_time, current_step_idx, last_ai_call,
               steady_captured, success_start, api_key, history,
               intervalLaunches, scenario, recovery>>

\* The threads after thread i has gone on to pc.
Moved(i, pc) == [tasks EXCEPT ![i].pc = pc]

\* The threads after thread i has ended.
Ended(i) == SubSeq(tasks, 1, i - 1) \o SubSeq(tasks, i + 1, Len(tasks))

\* lines 93-96: no API key, simulated success after the sleep
TaskSimulate(i) ==
    /\ i \in DOMAIN tasks
    /\ tasks[i].pc = "run"
    /\ ~api_key
    /\ clock - tasks[i].at >= SIMULATE_SLEEP
    /\ feedback_data' = OutcomeStatus("simulated")
    /\ tasks' = Moved(i, "st")
    /\ UNCHANGED <<state, quota_exhausted>>
    /\ EnteredFeedback
    /\ Produced(tasks[i].step)
    /\ UNCHANGED TaskFrame

\* lines 135-137: ResourceExhausted, the lock is written first
TaskQuota(i) ==
    /\ i \in DOMAIN tasks
    /\ tasks[i].pc = "run"
    /\ api_key
    /\ quota_exhausted' = TRUE
    /\ tasks' = Moved(i, "fb")
    /\ UNCHANGED <<state, feedback_data>>
    /\ EnteredFeedback
    /\ UNCHANGED outcomeStep
    /\ UNCHANGED TaskFrame

\* lines 138-141: the outcome of the quota failure
TaskQuotaOutcome(i) ==
    /\ i \in DOMAIN tasks
    /\ tasks[i].pc = "fb"
    /\ feedback_data' = OutcomeStatus("quota")
    /\ tasks' = Moved(i, "st")
    /\ UNCHANGED <<state, quota_exhausted>>
    /\ EnteredFeedback
    /\ Produced(tasks[i].step)
    /\ UNCHANGED TaskFrame

\* lines 101-105 and 144-179: every other path stores its outcome
TaskOutcome(i, kind) ==
    /\ i \in DOMAIN tasks
    /\ tasks[i].pc = "run"
    /\ api_key
    /\ kind \in ApiKinds \ {"quota"}
    /\ feedback_data' = OutcomeStatus(kind)
    /\ tasks' = Moved(i, "st")
    /\ UNCHANGED <<state, quota_exhausted>>
    /\ EnteredFeedback
    /\ Produced(tasks[i].step)
    /\ UNCHANGED TaskFrame

\* lines 97, 105, 142, 181: the thread's last write, after which it ends
TaskEndsWithoutPhase(i) ==
    /\ i \in DOMAIN tasks
    /\ tasks[i].pc = "st"
    /\ tasks' = Ended(i)
    /\ UNCHANGED <<state, feedback_data, quota_exhausted>>
    /\ EnteredFeedback
    /\ UNCHANGED outcomeStep
    /\ UNCHANGED TaskFrame
TaskSetState(i) ==
    /\ i \in DOMAIN tasks
    /\ tasks[i].pc = "st"
    /\ state' = "FEEDBACK"
    /\ EnteredFeedback
    /\ tasks' = Ended(i)
    /\ UNCHANGED <<feedback_data, quota_exhausted>>
    /\ UNCHANGED outcomeStep
    /\ UNCHANGED TaskFrame

\* ---------------------------------------------------------------- the clock
\* A timestamp as it is kept when the clock moves on: the program only
\* compares a timestamp's distance from the present with one interval, so a
\* timestamp further back than d seconds is kept d seconds back.  Every guard
\* of the program reads the same truth value before and after.
Recent(ts, d) == IF clock' - ts > d THEN clock' - d ELSE ts

\* One second passes.  A thread without an API key sleeps 2 seconds (line 95)
\* and then stores its outcome at once, so the clock does not pass that
\* instant while such a thread still has writes to make.
Advance ==
    /\ clock < MaxTime
    /\ \A i \in DOMAIN tasks : api_key \/ clock - tasks[i].at < SIMULATE_SLEEP
    /\ clock' = clock + 1
    /\ last_motion_time' = Recent(last_motion_time, TIME_THRESHOLD + 1)
    /\ last_ai_call' = Recent(last_ai_call, MIN_AI_INTERVAL)
    /\ success_start' = IF success_start = <<>> THEN <<>>
                        ELSE <<Recent(success_start[1], SUCCESS_DISPLAY + 1)>>
    /\ tasks' = [i \in DOMAIN tasks |->
                    [tasks[i] EXCEPT !.at = Recent(@, SIMULATE_SLEEP)]]
    /\ feedbackEnteredAt' = IF history /\ state = "FEEDBACK"
                            THEN Recent(feedbackEnteredAt, SUCCESS_DISPLAY)
                            ELSE feedbackEnteredAt
    /\ UNCHANGED <<prev_frame, state, feedback_data, current_step_idx,
                   steady_captured, quota_exhausted, api_key, history,
                   intervalLaunches, scenario, outcomeStep, recovery>>

Next ==
    \/ \E raw \in Scores : Tick(raw)
    \/ Reset
    \/ \E i \in DOMAIN tasks : TaskSimulate(i)
    \/ \E i \in DOMAIN tasks : TaskQuota(i)
    \/ \E i \in DOMAIN tasks : TaskQuotaOutcome(i)
    \/ \E i \in DOMAIN tasks, kind \in ApiKinds : TaskOutcome(i, kind)
    \/ \E i \in DOMAIN tasks : TaskSetState(i)
    \/ Advance

Spec == Init /\ [][Next]_vars

SpecHistory == InitHistory /\ [][Next]_vars

\* The program when the reset key is never pressed.
NextNoReset ==
    \/ \E raw \in Scores : Tick(raw)
    \/ \E i \in DOMAIN tasks : TaskSimulate(i)
    \/ \E i \in DOMAIN tasks : TaskQuota(i)
    \/ \E i \in DOMAIN tasks : TaskQuotaOutcome(i)
    \/ \E i \in DOMAIN tasks, kind \in ApiKinds : TaskOutcome(i, kind)
    \/ \E i \in DOMAIN tasks : TaskSetState(i)
    \/ Advance

\* Every thread goes on to its next write, time passes (up to MaxTime), and
\* the loop keeps taking frames; only the frames below the threshold are
\* promised, whether there is motion is left to the scene.
Fairness ==
    /\ WF_vars(\E i \in DOMAIN tasks : TaskSimulate(i))
    /\ WF_vars(\E i \in DOMAIN tasks, kind \in ApiKinds :
                   TaskQuota(i) \/ TaskOutcome(i, kind))
    /\ WF_vars(\E i \in DOMAIN tasks : TaskQuotaOutcome(i))
    /\ WF_vars(\E i \in DOMAIN tasks : TaskSetState(i))
    /\ WF_vars(Advance)
    /\ WF_vars(\E raw \in Scores : raw < MOTION_THRESHOLD /\ Tick(raw))

SpecLive == InitHistory /\ [][NextNoReset]_vars /\ Fairness

\* ------------------------------------------------------------------- claims
Launched == Len(tasks') > Len(tasks)

\* C1: at most one verification thread is in flight (started and not yet
\* finished) in every reachable state.
SingleFlight == Len(tasks) <= 1

\* C2: within one maximal run of ticks whose score stays below the threshold
\* at most one verification thread is started.
OneLaunchPerSteadyInterval == intervalLaunches <= 1

QuotaLockOneWay == [][quota_exhausted => quota_exhausted']_vars
\* A reset was taken with the lock set: the outcome of the quota failure is
\* cleared, the lock is not.
QuotaLockedAfterReset ==
    /\ quota_exhausted
    /\ tasks = <<>>
    /\ state = "MOVING"
    /\ feedback_data = "none"
    /\ last_motion_time = clock
    /\ clock - last_ai_call < MIN_AI_INTERVAL

\* C5: a verification thread is started only when at least MIN_AI_INTERVAL
\* seconds have passed since the previous start, and in STEADY inside that
\* window every step but the last write of an older thread (the only step
\* that ends a thread) leaves the phase STEADY or MOVING.
CooldownBetweenLaunches ==
    [][/\ Launched => clock - last_ai_call >= MIN_AI_INTERVAL
       /\ (/\ state = "STEADY"
           /\ clock - last_ai_call < MIN_AI_INTERVAL
           /\ Len(tasks') >= Len(tasks))
          => state' \in {"STEADY", "MOVING"}]_vars
\* The cooldown is the only hold left: STEADY after an earlier start, steps
\* remain, the event is not consumed and the lock is not set.
CooldownHoldReached ==
    /\ state = "STEADY"
    /\ ~quota_exhausted
    /\ ~steady_captured
    /\ current_step_idx < NumSteps
    /\ clock - last_ai_call < MIN_AI_INTERVAL

\* C6: the phase is STEADY only while more than TIME_THRESHOLD seconds have
\* passed since the last recorded motion.
SteadyOnlyAfterStillness ==
    state = "STEADY" => clock - last_motion_time > TIME_THRESHOLD
\* STEADY at the first second that allows it.
SteadyAtFirstInstant ==
    /\ state = "STEADY"
    /\ clock - last_motion_time = TIME_THRESHOLD + 1

\* C7: the step index changes only by +1, together with the return to MOVING
\* and the clearing of the outcome, and only once SUCCESS_DISPLAY seconds
\* have passed since the phase became FEEDBACK.
AdvanceAfterSuccessDisplay ==
    [][current_step_idx' # current_step_idx =>
          /\ current_step_idx' = current_step_idx + 1
          /\ state = "FEEDBACK"
          /\ state' = "MOVING"
          /\ feedback_data' = "none"
          /\ clock - feedbackEnteredAt >= SUCCESS_DISPLAY]_vars

\* C8: a step in which a thread meets a failure kind stores an outcome of
\* status error; the quota failure sets quota_exhausted and every other
\* failure kind leaves it as it was.
FailureMapsToError ==
    [][\A i \in DOMAIN tasks :
          /\ TaskQuota(i) => quota_exhausted'
          /\ TaskQuotaOutcome(i) => feedback_data' = "error" /\ quota_exhausted'
          /\ \A kind \in FailureKinds \ {"quota"} :
                TaskOutcome(i, kind) =>
                   feedback_data' = "error" /\ UNCHANGED quota_exhausted]_vars

\* C9 as stated: the reset key sets MOVING, clears the outcome, restarts the
\* stillness timer and clears steady_captured.
ResetClearsEventConsumed ==
    [][Reset =>
          /\ state' = "MOVING"
          /\ feedback_data' = "none"
          /\ last_motion_time' = clock
          /\ steady_captured' = FALSE
          /\ UNCHANGED <<quota_exhausted, current_step_idx, last_ai_call>>]_vars
\* C9 as amended: the reset key sets MOVING, clears the outcome, restarts the
\* stillness timer and leaves steady_captured, quota_exhausted,
\* current_step_idx and last_ai_call as they were.
ResetEffect ==
    [][Reset =>
          /\ state' = "MOVING"
          /\ feedback_data' = "none"
          /\ last_motion_time' = clock
          /\ UNCHANGED <<steady_captured, quota_exhausted, current_step_idx,
                         last_ai_call>>]_vars
\* Right after a reset taken while the only thread was still running: the
\* phase is MOVING and steady_captured is still set.
ResetDuringAnalyzing ==
    /\ Len(tasks) = 1
    /\ tasks[1].pc = "run"
    /\ state = "MOVING"
    /\ feedback_data = "none"
    /\ last_motion_time = clock
    /\ steady_captured

\* C10: a verification thread writes the phase only while the phase is
\* ANALYZING.
CompletionOnlyFromAnalyzing ==
    [][(\E i \in DOMAIN tasks : TaskSetState(i)) => state = "ANALYZING"]_vars

\* C11: on every tick, in every phase, a score at or above the threshold sets
\* last_motion_time to the tick's time and leaves the phase other than STEADY;
\* a score below the threshold in MOVING ends in STEADY exactly when more
\* than TIME_THRESHOLD seconds have passed since last_motion_time.
StabilityGateUpdate ==
    [][\A raw \in Scores :
          Tick(raw) =>
             IF GetMotionScore(raw) >= MOTION_THRESHOLD
             THEN last_motion_time' = clock /\ state' # "STEADY"
             ELSE state = "MOVING" =>
                     (state' = "STEADY" <=> clock - last_motion_time > TIME_THRESHOLD)]_vars

FailureFeedbackFrame ==
    [][\A raw \in Scores :
          (/\ Tick(raw)
           /\ state = "FEEDBACK"
           /\ feedback_data \in {"incorrect", "partial", "error"})
          => /\ UNCHANGED <<feedback_data, current_step_idx, steady_captured,
                            quota_exhausted, last_ai_call, success_start, tasks>>
             /\ IF GetMotionScore(raw) > MOTION_THRESHOLD
                THEN state' = "MOVING" /\ last_motion_time' = clock
                ELSE UNCHANGED <<state, last_motion_time>>]_vars
\* Motion has ended the display of a failure: MOVING at the instant of the
\* motion with the error outcome still stored.
FailureRetainedAfterMotion ==
    /\ state = "MOVING"
    /\ feedback_data = "error"
    /\ last_motion_time = clock
    /\ steady_captured
    /\ tasks = <<>>

\* C17: whenever the phase is FEEDBACK an outcome is stored.
FeedbackHasOutcome == state = "FEEDBACK" => feedback_data # "none"

\* C18: current_step_idx never decreases and stays within 0 .. len(STEPS).
StepIndexInRange ==
    /\ [](current_step_idx >= 0 /\ current_step_idx <= NumSteps)
    /\ [][current_step_idx' >= current_step_idx]_vars

\* C20: the phase is STEADY only with steady_captured false.
SteadyNeverConsumed == state = "STEADY" => ~steady_captured
\* STEADY entered again after the event before it was consumed by a start
\* whose thread has delivered a failure.
SteadyAfterConsumedEvent ==
    /\ state = "STEADY"
    /\ ~steady_captured
    /\ clock - last_ai_call < MIN_AI_INTERVAL
    /\ feedback_data = "error"
    /\ tasks = <<>>

\* C13: in the scenario (scores Samples, one per second, last_motion_time no
\* later than the first sample) the phase is MOVING after each of samples 1
\* to 8 and STEADY after sample 9.
ScenarioSteadyAtNinth ==
    /\ scenario \in 1 .. 8 => state = "MOVING"
    /\ scenario = 9 => state = "STEADY"
\* The ninth sample has been taken.
ScenarioCompleted == scenario = Len(Samples)

RecoversAfterFailure ==
    /\ ((recovery = "moved" /\ clock <= MaxTime - MIN_AI_INTERVAL)
           ~> (recovery # "moved"))
    /\ [][(recovery = "moved" /\ recovery' = "none") =>
             \E raw \in Scores : raw >= MOTION_THRESHOLD /\ Tick(raw)]_vars
    /\ [](recovery = "launched" /\ tasks # <<>> => state = "ANALYZING")
\* The next thread has been started after the failure, the motion and the
\* stillness.
RelaunchedAfterFailure ==
    /\ recovery = "launched"
    /\ state = "ANALYZING"
    /\ feedback_data = "error"
    /\ Len(tasks) = 1

\* C19: every step from current_step_idx = i < len(STEPS) to i + 1 uses an
\* outcome stored by a thread that was started for step i.
AdvanceJustifiedByOwnStep ==
    [][(current_step_idx' = current_step_idx + 1 /\ current_step_idx < NumSteps)
          => outcomeStep = current_step_idx]_vars

====
